---- MODULE Spec2Model ----
(***************************************************************************)
(* Federated threshold Schnorr signer (the "resolvr" module).              *)
(*                                                                         *)
(* Every peer of the committee owns a key-value store with the two         *)
(* singleton slots MessageNonceRequest and MessageSignRequest and the two  *)
(* keyed tables Nonce(message, peer) and SignatureShare(message, peer).    *)
(* Three operations touch it: the sign_event API endpoint, the proposal    *)
(* generator consensus_proposal, and process_consensus_item, which the     *)
(* consensus substrate calls for every ordered item on every peer.         *)
(*                                                                         *)
(* Consensus is modelled as rounds: peers contribute the output of         *)
(* consensus_proposal computed on their store as it is before the round,   *)
(* the contributions are ordered, and each ordered item is applied to      *)
(* every running peer.  Peers interact only through the ordered items, so  *)
(* applying an item on all peers in one step loses no per-peer behaviour.  *)
(*                                                                         *)
(* Cryptography is ideal: a partial signature is a token naming its signer *)
(* and the session it was made under, and an aggregate verifies iff it     *)
(* holds exactly one such token per nonce of the session.                  *)
(***************************************************************************)
EXTENDS Integers, Naturals, Sequences, FiniteSets, TLC

\* Committee size (number of entries of the peer map handed to DKG).
N == 3

\* cfg.consensus.threshold
Threshold == 2

\* Number of distinct values the nonce generator can return in the model.
MaxNonce == 2

\* Total number of items a Byzantine peer may inject.
MaxByz == 1

\* Total number of sign_event calls.
MaxSign == 2

Peers == 0 .. (N - 1)

\* Peers whose consensus items are not bound to the output of
\* consensus_proposal.
Byzantine == {N - 1}

\* Peers whose relay connection may refuse an event.
FlakyRelay == {0}

\* UnsignedEvent values submitted for signing.
Msgs == {"a", "b"}

\* Message names carry no meaning: the first call is named to sign this one.
FirstMsg == "a"

\* Option::None for the two singleton slots.
None == "none"

NonceVals == 1 .. MaxNonce

\* ------------------------------------------------------------------------
\* Ideal cryptography
\* ------------------------------------------------------------------------

\* A PeerId is a u16.
U16Max == 65535

\* `x as u32` and `x as u16`: the low 32, the low 16 bits of x.
as_u32(x) == x - (((x \div 65536) \div 65536) * 65536) * 65536

as_u16(x) == x % 65536

peer_id_to_scalar_narrow(peer_id) == as_u16(peer_id + 1)

\* fn peer_id_to_scalar: (peer_id.to_usize() + 1) as u32, then
\* NonZeroU32::new(id).expect(..): the result 0 stands for the panic.
peer_id_to_scalar(peer_id) == as_u32(peer_id + 1)

\* NonceKeyPair::random: a secret half and the public commitment to it.
NonceKeyPair(n) == [secret |-> n, public |-> <<"G", n>>]

\* NonceKeyPair::public
public(nonce) == nonce.public

\* Frost::start_sign_session(key, nonces, message): the session is a pure
\* function of the message and the map scalar -> public nonce.
start_sign_session(session_nonces, message_raw) ==
    [msg |-> message_raw, nonces |-> session_nonces]

\* Frost::sign: the partial signature under the session made with the
\* secret share of a party; it is the signature of party my_index when the
\* secret share is the one of that index, and of nobody otherwise.
sign(session, my_index, secret_share, my_nonce) ==
    [signer |-> IF secret_share.index = my_index THEN my_index ELSE 0,
     session |-> session, nonce |-> public(my_nonce)]

\* A 32-byte scalar that is nobody's partial signature.
GarbageShare ==
    [signer |-> 0, session |-> [msg |-> "none", nonces |-> << >>],
     nonce |-> <<"G", 0>>]

\* Frost::verify_signature_share, for an index that is a party of the
\* session: the share is the one party index makes under this session.
verify_signature_share(session, index, share) ==
    /\ share.signer = index
    /\ share.session = session
    /\ share.nonce = session.nonces[index]

\* Frost::combine_signature_shares: the sum of the given shares, bound to
\* the session's aggregate nonce.
combine_signature_shares(session, frost_shares) ==
    [session |-> session, shares |-> frost_shares]

\* Schnorr::verify(group key, message, signature): ideal FROST, the sum is
\* a signature iff it has exactly one share of every party of the session.
schnorr_verify(message_raw, sig) ==
    /\ sig.session.msg = message_raw
    /\ DOMAIN sig.session.nonces # {}
    /\ \A i \in DOMAIN sig.session.nonces :
         Cardinality({p \in DOMAIN sig.shares :
                        verify_signature_share(sig.session, i, sig.shares[p])}) = 1
    /\ Cardinality(DOMAIN sig.shares) = Cardinality(DOMAIN sig.session.nonces)

\* ------------------------------------------------------------------------
\* The store of one peer
\* ------------------------------------------------------------------------

EmptyMap == << >>

EmptyDb == [nonceReq |-> None, signReq |-> None,
            nonces |-> EmptyMap, shares |-> EmptyMap]

\* dbtx.get_value(key).is_some()
is_some(map, key) == key \in DOMAIN map

\* dbtx.insert_new_entry(key, value): stores value under key.
insert_new_entry(map, key, value) ==
    [k \in (DOMAIN map) \cup {key} |-> IF k = key THEN value ELSE map[k]]

\* dbtx.find_by_prefix(MessagePrefix(msg)): the entries of one message,
\* as a map from the contributing peer to the value.
find_by_prefix(map, msg) ==
    [p \in {q \in Peers : <<msg, q>> \in DOMAIN map} |-> map[<<msg, p>>]]

\* Resolvr::get_nonces: every stored nonce of the message, keyed by scalar.
get_nonces(s, unsigned_event) ==
    LET potential_nonces == find_by_prefix(s.nonces, unsigned_event)
    IN  [i \in {peer_id_to_scalar(p) : p \in DOMAIN potential_nonces} |->
            potential_nonces[CHOOSE p \in DOMAIN potential_nonces :
                                peer_id_to_scalar(p) = i]]

\* The session both the proposal generator and the processor build.
session_of(s, unsigned_event) ==
    LET nonces == get_nonces(s, unsigned_event)
    IN  start_sign_session([i \in DOMAIN nonces |-> public(nonces[i])],
                           unsigned_event)

\* ------------------------------------------------------------------------
\* Results of the operations
\* ------------------------------------------------------------------------

Ok == "Ok"
Unauthorized == "Unauthorized"
BusySigner == "BusySigner"
DuplicateNonce == "DuplicateNonce"
DuplicateShare == "DuplicateShare"
InvalidShare == "InvalidShare"
Panic == "Panic"

\* The call is suspended at self.nostr_client.send_event(..).await.
Pending == "Pending"

\* The two kinds of ResolvrConsensusItem.
NonceItem(msg, nonce) == [kind |-> "Nonce", msg |-> msg, val |-> nonce]
ShareItem(msg, share) == [kind |-> "FrostSigShare", msg |-> msg, val |-> share]
NoItem == [kind |-> "none", msg |-> None, val |-> [none |-> TRUE]]

\* ------------------------------------------------------------------------
\* sign_event
\* ------------------------------------------------------------------------

\* check_auth(context): passes iff the caller presented the admin credential.
check_auth(auth) == auth

sign_event_unchecked(s, unsigned_event, auth) ==
    [db |-> [s EXCEPT !.nonceReq = unsigned_event], result |-> Ok]

\* A sign_event that also empties MessageSignRequest.
sign_event_resetting(s, unsigned_event, auth) ==
    IF ~check_auth(auth)
    THEN [db |-> s, result |-> Unauthorized]
    ELSE [db |-> [s EXCEPT !.nonceReq = unsigned_event, !.signReq = None],
          result |-> Ok]

\* The "sign_event" endpoint: check_auth(context)?, then
\* insert_new_entry(&MessageNonceRequest, &unsigned_event), then Ok(()).
sign_event(s, unsigned_event, auth) ==
    IF ~check_auth(auth)
    THEN [db |-> s, result |-> Unauthorized]
    ELSE [db |-> [s EXCEPT !.nonceReq = unsigned_event], result |-> Ok]

\* ------------------------------------------------------------------------
\* consensus_proposal
\* ------------------------------------------------------------------------

\* First half: a fresh nonce for the message in MessageNonceRequest.
nonce_proposal(s, n) ==
    IF s.nonceReq # None
    THEN << NonceItem(s.nonceReq, NonceKeyPair(n)) >>
    ELSE << >>

\* Second half: this peer's share for the message in MessageSignRequest,
\* signed under the session of every nonce stored for it.  The own nonce is
\* read back from the store; .expect() panics when it is not there.
own_nonce_missing(s, my_peer_id) ==
    /\ s.signReq # None
    /\ peer_id_to_scalar(my_peer_id) \notin DOMAIN get_nonces(s, s.signReq)

share_proposal_leaking(s, config) ==
    IF s.signReq # None /\ ~own_nonce_missing(s, config.private.my_peer_id)
    THEN << ShareItem(s.signReq, config.private.my_secret_share) >>
    ELSE << >>

\* config is self.cfg: the peer id and the secret share are read from it.
share_proposal(s, config) ==
    IF s.signReq # None /\ ~own_nonce_missing(s, config.private.my_peer_id)
    THEN LET event == s.signReq
             nonces == get_nonces(s, event)
             session == session_of(s, event)
             my_secret_share == config.private.my_secret_share
             my_index == peer_id_to_scalar(config.private.my_peer_id)
         IN  << ShareItem(event, sign(session, my_index, my_secret_share,
                                      nonces[my_index])) >>
    ELSE << >>

consensus_proposal_fresh_share(s, config, n) ==
    nonce_proposal(s, n) \o
    (IF s.signReq # None /\ ~own_nonce_missing(s, config.private.my_peer_id)
     THEN << ShareItem(s.signReq,
                       sign(session_of(s, s.signReq),
                            peer_id_to_scalar(config.private.my_peer_id),
                            config.private.my_secret_share,
                            NonceKeyPair(n))) >>
     ELSE << >>)

\* consensus_proposal: the items of the first half, then of the second.
consensus_proposal(s, config, n) ==
    nonce_proposal(s, n) \o share_proposal(s, config)

\* ------------------------------------------------------------------------
\* process_consensus_item
\* ------------------------------------------------------------------------

reached_threshold_off_by_one(len) == len >= Threshold - 1

\* nonces.len() >= threshold as usize, sig_shares.len() >= threshold as usize
reached_threshold(len) == len >= Threshold

nonce_never_received(s, msg, peer_id) == FALSE

\* dbtx.get_value(&ResolvrNonceKey(msg, peer_id)).is_some()
nonce_already_received(s, msg, peer_id) == is_some(s.nonces, <<msg, peer_id>>)

share_never_received(s, unsigned_event, peer_id) == FALSE

\* dbtx.get_value(&ResolvrSignatureShareKey(event, peer_id)).is_some()
share_already_received(s, unsigned_event, peer_id) ==
    is_some(s.shares, <<unsigned_event, peer_id>>)

share_always_accepted(session, curr_index, share) == FALSE

\* !self.frost.verify_signature_share(key, &session, curr_index, share.0)
share_is_invalid(session, curr_index, share) ==
    \/ curr_index \notin DOMAIN session.nonces
    \/ ~verify_signature_share(session, curr_index, share)

my_nonce_assumed(nonces, my_peer_id) == TRUE

\* nonces.into_iter().find(|(key, _)| key.1 == my_peer_id).is_some()
my_nonce_included(nonces, my_peer_id) == my_peer_id \in DOMAIN nonces

\* What one call leaves behind: the store, the returned result, and the
\* record of the aggregation it ran, if it ran one.
Outcome(s, result, agg) == [db |-> s, result |-> result, agg |-> agg]

process_nonce_when_pending(s, my_peer_id, msg, nonce, peer_id) ==
    IF s.nonceReq = msg
    THEN Outcome([s EXCEPT !.nonces =
                     insert_new_entry(s.nonces, <<msg, peer_id>>, nonce)],
                 Ok, << >>)
    ELSE Outcome(s, Ok, << >>)

\* The Nonce arm.
process_nonce(s, my_peer_id, msg, nonce, peer_id) ==
    IF nonce_already_received(s, msg, peer_id)
    THEN Outcome(s, DuplicateNonce, << >>)
    ELSE LET s1 == [s EXCEPT !.nonces =
                        insert_new_entry(s.nonces, <<msg, peer_id>>, nonce)]
             nonces == find_by_prefix(s1.nonces, msg)
         IN  IF reached_threshold(Cardinality(DOMAIN nonces))
             THEN LET s2 == [s1 EXCEPT !.nonceReq = None]
                  IN  IF my_nonce_included(nonces, my_peer_id)
                      THEN Outcome([s2 EXCEPT !.signReq = msg], Ok, << >>)
                      ELSE Outcome(s2, Ok, << >>)
             ELSE Outcome(s1, Ok, << >>)

\* The tail of the FrostSigShare arm, run once the share count has reached
\* the threshold, up to send_event(..).await.  MessageSignRequest is removed
\* in the transaction; verification_outcome is computed and logged; the
\* signature is attached whatever it is.  attach_ok tells whether
\* add_signature returns Ok for a signature that does not verify; the result
\* is unwrapped.  The call is then suspended with its writes made in the
\* transaction and nothing committed.
aggregate_until_send(s, unsigned_event, session, attach_ok) ==
    LET sig_shares == find_by_prefix(s.shares, unsigned_event)
        s1 == [s EXCEPT !.signReq = None]
        combined_sig == combine_signature_shares(session, sig_shares)
        verification_outcome == schnorr_verify(unsigned_event, combined_sig)
        signed_event == [msg |-> unsigned_event, sig |-> combined_sig,
                         valid |-> verification_outcome, sent |-> FALSE]
    IN  IF verification_outcome \/ attach_ok
        THEN Outcome(s1, Pending, << signed_event >>)
        ELSE Outcome(s, Panic, << signed_event >>)

\* send_event has returned to a call r suspended on store s: relay_ok tells
\* whether it returned Ok; the result is unwrapped.  A panic leaves the
\* transaction uncommitted.
send_returned(s, r, relay_ok) ==
    IF r.result # Pending
    THEN r
    ELSE IF relay_ok
         THEN Outcome(r.db, Ok, << [r.agg[1] EXCEPT !.sent = TRUE] >>)
         ELSE Outcome(s, Panic, r.agg)

\* The tail of the FrostSigShare arm when nothing runs while it is
\* suspended.
aggregate(s, unsigned_event, session, attach_ok, relay_ok) ==
    send_returned(s, aggregate_until_send(s, unsigned_event, session, attach_ok),
                  relay_ok)

\* The FrostSigShare arm up to send_event(..).await, or to its return when
\* it does not get there.  index_panics tells whether verify_signature_share
\* panics, rather than answering false, for an index that has no nonce in
\* the session.
process_share_until_send(s, my_peer_id, unsigned_event, share, peer_id, env) ==
    IF share_already_received(s, unsigned_event, peer_id)
    THEN Outcome(s, DuplicateShare, << >>)
    ELSE LET session == session_of(s, unsigned_event)
             curr_index == peer_id_to_scalar(peer_id)
         IN  IF curr_index \notin DOMAIN session.nonces /\ env.index_panics
             THEN Outcome(s, Panic, << >>)
             ELSE IF share_is_invalid(session, curr_index, share)
             THEN Outcome(s, InvalidShare, << >>)
             ELSE LET s1 == [s EXCEPT !.shares =
                                insert_new_entry(s.shares,
                                    <<unsigned_event, peer_id>>, share)]
                      sig_shares == find_by_prefix(s1.shares, unsigned_event)
                  IN  IF reached_threshold(Cardinality(DOMAIN sig_shares))
                      THEN LET r == aggregate_until_send(s1, unsigned_event,
                                                         session, env.attach_ok)
                           IN  IF r.result = Panic
                               THEN Outcome(s, Panic, r.agg)
                               ELSE r
                      ELSE Outcome(s1, Ok, << >>)

\* The FrostSigShare arm when nothing runs while it is suspended.
process_share(s, my_peer_id, unsigned_event, share, peer_id, env) ==
    send_returned(s, process_share_until_send(s, my_peer_id, unsigned_event,
                                              share, peer_id, env),
                  env.relay_ok[my_peer_id])

\* process_consensus_item up to send_event(..).await; the Nonce arm has no
\* such point and runs to its return.
process_consensus_item_until_send(s, my_peer_id, consensus_item, peer_id, env) ==
    IF consensus_item.kind = "Nonce"
    THEN process_nonce(s, my_peer_id, consensus_item.msg,
                       consensus_item.val, peer_id)
    ELSE process_share_until_send(s, my_peer_id, consensus_item.msg,
                                  consensus_item.val, peer_id, env)

\* process_consensus_item when nothing runs while it is suspended.
process_consensus_item(s, my_peer_id, consensus_item, peer_id, env) ==
    IF consensus_item.kind = "Nonce"
    THEN process_nonce(s, my_peer_id, consensus_item.msg,
                       consensus_item.val, peer_id)
    ELSE process_share(s, my_peer_id, consensus_item.msg,
                       consensus_item.val, peer_id, env)

\* ------------------------------------------------------------------------
\* Distributed key generation
\* ------------------------------------------------------------------------

\* The thresholds the config-gen parameters of a peer may name.
ParamThresholds == {Threshold, N}

\* frost::generate_scalar_poly(threshold, rng): threshold random secret
\* coefficients; seed names the draw.
generate_scalar_poly(threshold, seed) == [seed |-> seed, len |-> threshold]

\* frost::to_point_poly: the commitment to every coefficient.
to_point_poly(secret_poly) ==
    [commit |-> secret_poly.seed, len |-> secret_poly.len]

\* The draw of peer p's generator during key generation.
PolySeed(p) == p + 1

\* No polynomial, no share, no proof received yet.
NoPoly == [commit |-> 0, len |-> 0]
NoPop == [key |-> 0, msg |-> << >>]
NoSubmission == [shares |-> << >>, pop |-> NoPop]

\* Frost::new_keygen: Err (FALSE) when the polynomials differ in length.
new_keygen(point_polys) ==
    [ok |-> \A i, j \in DOMAIN point_polys :
                point_polys[i].len = point_polys[j].len,
     polys |-> point_polys]

\* Frost::keygen_id: a hash of the polynomials of the key generation.
keygen_id(keygen) == keygen.polys

\* The evaluation of the polynomial committed to by `commit` at `index`.
SecretShareOf(commit, index) == [of |-> commit, at |-> index]

\* A Schnorr signature of msg under the constant term committed to by key.
PopOf(key, msg) == [key |-> key, msg |-> msg]

\* Frost::create_shares_and_pop: a share for every party of the key
\* generation, and a proof of possession over pop_message.
create_shares_and_pop(keygen, secret_poly, pop_message) ==
    [shares |-> [i \in DOMAIN keygen.polys |->
                    SecretShareOf(secret_poly.seed, i)],
     pop |-> PopOf(secret_poly.seed, pop_message)]

\* What Frost::finish_keygen returns: the secret share is the sum of the
\* received shares, the group key the sum of the constant terms.
keygen_output(ok, keygen, my_index, my_shares) ==
    [ok |-> ok,
     my_secret_share |->
        [index |-> my_index,
         sum |-> {my_shares[i].share.of : i \in DOMAIN my_shares}],
     frost_key |->
        [public_key |-> [x |-> {keygen.polys[i].commit : i \in DOMAIN keygen.polys},
                         even_y |-> TRUE],
         threshold |-> keygen.polys[my_index].len]]

\* Frost::finish_keygen: every received share is checked against the
\* sender's polynomial and every proof of possession against the sender's
\* constant term and pop_message.
finish_keygen_unchecked(keygen, my_index, my_shares, pop_message) ==
    keygen_output(TRUE, keygen, my_index, my_shares)

finish_keygen(keygen, my_index, my_shares, pop_message) ==
    keygen_output(/\ DOMAIN my_shares = DOMAIN keygen.polys
                  /\ \A i \in DOMAIN my_shares :
                       /\ my_shares[i].share =
                              SecretShareOf(keygen.polys[i].commit, my_index)
                       /\ my_shares[i].pop =
                              PopOf(keygen.polys[i].commit, pop_message),
                  keygen, my_index, my_shares)

\* Point::to_xonly_bytes: the x coordinate, without the parity of y.
to_xonly_bytes(point) == point.x

\* distributed_gen up to the first exchange: the polynomial of the
\* threshold in this peer's parameters.
distributed_gen_polynomial(threshold, seed) ==
    generate_scalar_poly(threshold, seed)

\* The polynomials keyed by scalar instead of peer id.
public_polys_received(peer_polynomials) ==
    [i \in {peer_id_to_scalar(q) : q \in DOMAIN peer_polynomials} |->
        peer_polynomials[CHOOSE q \in DOMAIN peer_polynomials :
                            peer_id_to_scalar(q) = i]]

\* distributed_gen between the exchanges: new_keygen(..).expect(..) panics
\* on Err; otherwise the shares and the proof to hand to the peers.
distributed_gen_shares(my_secret_poly, peer_polynomials) ==
    LET keygen == new_keygen(public_polys_received(peer_polynomials))
    IN  IF ~keygen.ok
        THEN [result |-> Panic, submission |-> NoSubmission]
        ELSE [result |-> Ok,
              submission |-> create_shares_and_pop(keygen, my_secret_poly,
                                                   keygen_id(keygen))]

\* The configuration a peer holds after key generation.
ResolvrConfig(my_secret_share, my_peer_id, threshold, frost_key) ==
    [private |-> [my_secret_share |-> my_secret_share,
                  my_peer_id |-> my_peer_id],
     consensus |-> [threshold |-> threshold, frost_key |-> frost_key]]

\* distributed_gen after the second exchange: the share addressed to this
\* peer is taken from every submission (.unwrap() panics when there is
\* none), finish_keygen(..).expect(..) panics on Err, and only then the
\* configuration is built.  cfg is the empty sequence when none is returned.
distributed_gen_finish(threshold, our_id, peer_polynomials, shares_and_pop) ==
    LET keygen == new_keygen(public_polys_received(peer_polynomials))
        my_index == peer_id_to_scalar(our_id)
    IN  IF \E q \in DOMAIN shares_and_pop :
               my_index \notin DOMAIN shares_and_pop[q].shares
        THEN [result |-> Panic, cfg |-> << >>]
        ELSE LET my_shares ==
                     [i \in {peer_id_to_scalar(q) : q \in DOMAIN shares_and_pop} |->
                        LET q == CHOOSE q \in DOMAIN shares_and_pop :
                                    peer_id_to_scalar(q) = i
                        IN  [share |-> shares_and_pop[q].shares[my_index],
                             pop |-> shares_and_pop[q].pop]]
                 fin == finish_keygen(keygen, my_index, my_shares,
                                      keygen_id(keygen))
             IN  IF ~fin.ok
                 THEN [result |-> Panic, cfg |-> << >>]
                 ELSE [result |-> Ok,
                       cfg |-> << ResolvrConfig(fin.my_secret_share, our_id,
                                                threshold, fin.frost_key) >>]

\* The "npub" endpoint: the x-only group key of the configuration.
npub(config) == to_xonly_bytes(config.consensus.frost_key.public_key)

\* The key generation in which every peer has parameter Threshold and
\* every exchange and check succeeds.
CleanPolys ==
    [q \in Peers |-> to_point_poly(distributed_gen_polynomial(Threshold, PolySeed(q)))]

CleanShares ==
    [q \in Peers |->
        distributed_gen_shares(distributed_gen_polynomial(Threshold, PolySeed(q)),
                               CleanPolys).submission]

CleanConfig(p) ==
    distributed_gen_finish(Threshold, p, CleanPolys, CleanShares).cfg

\* The bootstrap as a whole: where each peer stands in distributed_gen or
\* in init (pc), the configuration it was handed and that passed
\* validate_config (handed), the relays its client has added (relays), the
\* threshold in its parameters (params), and what each sender handed to
\* each receiver in the two exchanges.
CleanDkg ==
    [pc |-> [p \in Peers |-> "done"],
     handed |-> [p \in Peers |-> << >>],
     relays |-> [p \in Peers |-> 0],
     params |-> [p \in Peers |-> Threshold],
     polys |-> [q \in Peers |-> [p \in Peers |-> CleanPolys[q]]],
     shares |-> [q \in Peers |-> [p \in Peers |-> CleanShares[q]]]]

\* ------------------------------------------------------------------------
\* The federation
\* ------------------------------------------------------------------------

VARIABLES
    db,        \* db[p]: the store of peer p
    alive,     \* alive[p]: p has not panicked
    aggLog,    \* aggLog[p]: the aggregations p ran, in order
    queue,     \* the ordered items of the round not applied yet
    proposed,  \* the peers that contributed to the round being formed
    phase,     \* "propose" while a round is formed, "apply" while it is applied
    last,      \* the last API call or applied item, with its results
    nSign,     \* the sign_event calls counted against MaxSign so far
    nByz,      \* the number of items Byzantine peers injected so far
    replica,   \* replica[p]: a fresh replica of p fed the ordered items only
    probe,     \* two peer ids and the scalars peer_id_to_scalar gave for them
    cfg,       \* cfg[p]: the configuration of p, << >> before key generation
    dkg,       \* the key generation: each peer's position and the exchanges
    sending    \* sending[p]: the call of p suspended at send_event, if any

vars == << db, alive, aggLog, queue, proposed, phase, last, nSign, nByz,
          replica, probe, cfg, dkg, sending >>

\* What the environment decides while one item is applied: whether
\* add_signature accepts a signature that does not verify (attach_ok),
\* whether verify_signature_share panics for an index without a nonce
\* (index_panics), and whether each peer's relay takes the event (relay_ok).
Envs == [attach_ok : BOOLEAN, index_panics : BOOLEAN,
         relay_ok : {r \in [Peers -> BOOLEAN] :
                        \A p \in Peers \ FlakyRelay : r[p]}]

CalmEnv == [attach_ok |-> TRUE, index_panics |-> FALSE,
            relay_ok |-> [p \in Peers |-> TRUE]]

\* Only the FrostSigShare arm reads the environment.
EnvsOf(item) == IF item.kind = "Nonce" THEN {CalmEnv} ELSE Envs

NoRes == [p \in Peers |-> None]

\* The record of an operation: which it was, whether the caller of
\* sign_event held the credential, and what each peer's handler returned.
Last(op, auth, res) == [op |-> op, auth |-> auth, res |-> res]

\* peer_id_to_scalar applied to two peer ids.
Probe(a, b) ==
    [a |-> a, b |-> b, ia |-> peer_id_to_scalar(a), ib |-> peer_id_to_scalar(b)]

\* A replica of a peer before it has replayed anything: the peer's key
\* material and peer id, an empty store, no signed event.
FreshReplica == [db |-> EmptyDb, aggLog |-> << >>]

\* The replica replays one ordered item with process_consensus_item.
Replay(r, my_peer_id, it, env) ==
    LET out == process_consensus_item(r.db, my_peer_id, it.item, it.origin, env)
    IN  [db |-> out.db, aggLog |-> r.aggLog \o out.agg]

\* No call is suspended.
NoSend == Outcome(EmptyDb, None, << >>)

InitStore ==
    /\ db = [p \in Peers |-> EmptyDb]
    /\ alive = [p \in Peers |-> TRUE]
    /\ aggLog = [p \in Peers |-> << >>]
    /\ queue = << >>
    /\ proposed = {}
    /\ phase = "propose"
    /\ last = Last("init", FALSE, NoRes)
    /\ nSign = 0
    /\ nByz = 0
    /\ replica = [p \in Peers |-> FreshReplica]
    /\ probe = Probe(0, 0)
    /\ sending = [p \in Peers |-> NoSend]

\* The federation after a key generation that went well: every module is
\* constructed with the configuration distributed_gen returned to it.
Init ==
    /\ InitStore
    /\ cfg = [p \in Peers |-> CleanConfig(p)]
    /\ dkg = CleanDkg

\* An API call sign_event(m) on peer p, with or without the credential.
\* The API runs beside consensus: the call can come at any moment.
SignEvent(p, m, auth) ==
    /\ alive[p]
    /\ nSign < MaxSign
    /\ nSign = 0 => m = FirstMsg
    /\ LET r == sign_event(db[p], m, auth)
       IN  /\ db' = [db EXCEPT ![p] = r.db]
           /\ last' = Last("sign", auth, [NoRes EXCEPT ![p] = r.result])
    /\ nSign' = nSign + 1
    /\ UNCHANGED << alive, aggLog, queue, proposed, phase, nByz, replica, probe, cfg, dkg, sending >>

\* The values NonceKeyPair::random can return when peer p draws a nonce.
\* Nonce values are only ever compared with the value stored under the
\* same (message, peer) key, so the first value drawn for a key is named 1.
FreshNonces(p) ==
    IF is_some(db[p].nonces, <<db[p].nonceReq, p>>) THEN NonceVals ELSE {1}

\* The n-th value of peer p's generator: peers draw independently, so
\* values drawn by different peers differ.
Drawn(p, n) == MaxNonce * p + n

\* Peer p contributes the output of consensus_proposal to the round.
Propose(p, n) ==
    /\ phase = "propose"
    /\ alive[p]
    /\ p \notin proposed
    /\ IF own_nonce_missing(db[p], p)
       THEN /\ alive' = [alive EXCEPT ![p] = FALSE]
            /\ UNCHANGED queue
       ELSE LET items == consensus_proposal(db[p], Head(cfg[p]), Drawn(p, n))
            IN  /\ items # << >>
                /\ queue' = queue \o
                     [i \in 1 .. Len(items) |-> [origin |-> p, item |-> items[i]]]
                /\ UNCHANGED alive
    /\ proposed' = proposed \cup {p}
    /\ UNCHANGED << db, aggLog, phase, last, nSign, nByz, replica, probe, cfg, dkg, sending >>

\* The items a Byzantine peer b can contribute: a nonce for any message
\* (named as in FreshNonces), a scalar that is no share, and its own share
\* under the session of the nonces stored so far.
ByzItems(b) ==
    {NonceItem(mn[1], NonceKeyPair(Drawn(b, mn[2]))) :
        mn \in {x \in Msgs \X NonceVals :
                   x[2] = 1 \/ is_some(db[b].nonces, <<x[1], b>>)}}
    \cup {ShareItem(m, GarbageShare) : m \in Msgs}
    \cup {ShareItem(m, sign(session_of(db[b], m), peer_id_to_scalar(b),
                            Head(cfg[b]).private.my_secret_share,
                            get_nonces(db[b], m)[peer_id_to_scalar(b)])) :
            m \in {x \in Msgs : peer_id_to_scalar(b) \in DOMAIN get_nonces(db[b], x)}}

\* A Byzantine peer contributes an item of its choice to the round.
ByzPropose(b, item) ==
    /\ phase = "propose"
    /\ b \notin proposed
    /\ nByz < MaxByz
    /\ queue' = Append(queue, [origin |-> b, item |-> item])
    /\ proposed' = proposed \cup {b}
    /\ nByz' = nByz + 1
    /\ UNCHANGED << db, alive, aggLog, phase, last, nSign, replica, probe, cfg, dkg, sending >>

\* The writes of a FrostSigShare call that got to send_event (the share
\* inserted, MessageSignRequest removed), committed on store s.
commit(s, tx) == [s EXCEPT !.shares = tx.shares, !.signReq = tx.signReq]

\* The next ordered item is applied on every running peer, each peer
\* taking the items one after another.  A peer whose call gets to
\* send_event is suspended there with nothing committed; what the call
\* returns once send_event has returned (env.relay_ok) is kept in sending.
\* With the last item of the round the next round starts to form.
Apply(env) ==
    /\ \A p \in Peers : sending[p] = NoSend
    /\ LET it == Head(queue)
           upto == [p \in Peers |->
                      process_consensus_item_until_send(db[p], p, it.item,
                                                        it.origin, env)]
           out == [p \in Peers |->
                     process_consensus_item(db[p], p, it.item, it.origin, env)]
           suspended == {p \in Peers : alive[p] /\ upto[p].result = Pending}
       IN  /\ db' = [p \in Peers |->
                       IF alive[p] /\ p \notin suspended THEN out[p].db ELSE db[p]]
           /\ alive' = [p \in Peers |->
                          alive[p] /\ (p \in suspended \/ out[p].result # Panic)]
           /\ aggLog' = [p \in Peers |->
                           IF alive[p] /\ p \notin suspended
                           THEN aggLog[p] \o out[p].agg ELSE aggLog[p]]
           /\ sending' = [p \in Peers |->
                            IF p \in suspended THEN out[p] ELSE NoSend]
           /\ last' = Last("apply", FALSE,
                           [p \in Peers |-> IF alive[p] THEN upto[p].result ELSE None])
           /\ replica' = [p \in Peers |->
                            IF alive[p] THEN Replay(replica[p], p, it, env)
                            ELSE replica[p]]
    /\ queue' = Tail(queue)
    /\ phase' = IF Tail(queue) = << >> THEN "propose" ELSE "apply"
    /\ proposed' = IF Tail(queue) = << >> THEN {} ELSE proposed
    /\ UNCHANGED << nSign, nByz, probe, cfg, dkg >>

\* send_event returns to the suspended call of peer p: on Ok the call
\* returns and its transaction is committed on the store as it is by then;
\* on Err the unwrap panics and nothing is committed.
SendReturns(p) ==
    /\ sending[p] # NoSend
    /\ db' = [db EXCEPT ![p] = IF sending[p].result = Ok
                               THEN commit(db[p], sending[p].db) ELSE db[p]]
    /\ alive' = [alive EXCEPT ![p] = sending[p].result # Panic]
    /\ aggLog' = [aggLog EXCEPT ![p] = aggLog[p] \o sending[p].agg]
    /\ sending' = [sending EXCEPT ![p] = NoSend]
    /\ last' = Last("send", FALSE, [NoRes EXCEPT ![p] = sending[p].result])
    /\ UNCHANGED << queue, proposed, phase, nSign, nByz, replica, probe, cfg, dkg >>

\* Peer p stops while its call is suspended: the event was handed to the
\* relays and none of the writes is committed.
SendCrash(p) ==
    /\ sending[p] # NoSend
    /\ alive' = [alive EXCEPT ![p] = FALSE]
    /\ aggLog' = [aggLog EXCEPT ![p] =
                     aggLog[p] \o << [sending[p].agg[1] EXCEPT !.sent = TRUE] >>]
    /\ sending' = [sending EXCEPT ![p] = NoSend]
    /\ last' = Last("send", FALSE, [NoRes EXCEPT ![p] = Panic])
    /\ UNCHANGED << db, queue, proposed, phase, nSign, nByz, replica, probe, cfg, dkg >>

Deliver ==
    /\ queue # << >>
    /\ \E env \in EnvsOf(Head(queue).item) : Apply(env)

\* sign_event(FirstMsg) by the administrator on a peer that holds no
\* request and has not contributed a nonce yet: the scenario of one
\* signing job, which peers may join at any time.
RequestJob(p) ==
    /\ alive[p]
    /\ db[p].nonceReq = None
    /\ ~is_some(db[p].nonces, <<FirstMsg, p>>)
    /\ LET r == sign_event(db[p], FirstMsg, TRUE)
       IN  /\ db' = [db EXCEPT ![p] = r.db]
           /\ last' = Last("sign", TRUE, [NoRes EXCEPT ![p] = r.result])
    /\ UNCHANGED << alive, aggLog, queue, proposed, phase, nSign, nByz, replica, probe, cfg, dkg, sending >>

Honest == Peers \ Byzantine

\* The federation with a Byzantine peer: the honest peers take API calls
\* and contribute what consensus_proposal returns, the Byzantine peer
\* contributes what it likes.
Next ==
    \/ \E p \in Honest, m \in Msgs, auth \in BOOLEAN : SignEvent(p, m, auth)
    \/ \E p \in Honest : \E n \in FreshNonces(p) : Propose(p, n)
    \/ \E b \in Byzantine : \E item \in ByzItems(b) : ByzPropose(b, item)
    \/ Deliver
    \/ \E p \in Peers : SendReturns(p)
    \/ \E p \in FlakyRelay : SendCrash(p)

Spec == Init /\ [][Next]_vars

\* One signing job in a federation whose peers all follow the protocol.
NextJob ==
    \/ \E p \in Peers : RequestJob(p)
    \/ \E p \in Peers : \E n \in FreshNonces(p) : Propose(p, n)
    \/ Deliver
    \/ \E p \in Peers : SendReturns(p)
    \/ \E p \in FlakyRelay : SendCrash(p)

SpecJob == Init /\ [][NextJob]_vars

\* The same job in the run most favourable to it: every relay takes the
\* event and no library call panics.
DeliverCalm ==
    /\ queue # << >>
    /\ Apply(CalmEnv)

\* DeliverCalm can be taken: an item is ordered and no call is suspended.
DeliverCalmEnabled == queue # << >> /\ \A p \in Peers : sending[p] = NoSend

\* Weak fairness of DeliverCalm, WF_vars(DeliverCalm), with its enabling
\* condition written out.
FairDeliverCalm == []<>(~DeliverCalmEnabled) \/ []<><<DeliverCalm>>_vars

NextLive ==
    \/ \E p \in Peers : RequestJob(p)
    \/ \E p \in Peers : \E n \in FreshNonces(p) : Propose(p, n)
    \/ DeliverCalm
    \/ \E p \in Peers : SendReturns(p)

\* Consensus keeps running rounds: an ordered item is eventually applied,
\* send_event eventually returns, and a peer that has something to
\* contribute eventually contributes.
SpecLive ==
    /\ Init
    /\ [][NextLive]_vars
    /\ FairDeliverCalm
    /\ \A p \in Peers : WF_vars(SendReturns(p))
    /\ \A p \in Peers : WF_vars(\E n \in FreshNonces(p) : Propose(p, n))

\* A Byzantine peer contributes an item to the round of a job; nothing
\* limits how often.
ByzInterfere(b, item) ==
    /\ phase = "propose"
    /\ b \notin proposed
    /\ queue' = Append(queue, [origin |-> b, item |-> item])
    /\ proposed' = proposed \cup {b}
    /\ UNCHANGED << db, alive, aggLog, phase, last, nSign, nByz, replica, probe, cfg, dkg, sending >>

\* One signing job among the honest peers, with a Byzantine peer beside
\* them, in the run most favourable to the job.
NextByzLive ==
    \/ \E p \in Honest : RequestJob(p)
    \/ \E p \in Honest : \E n \in FreshNonces(p) : Propose(p, n)
    \/ \E b \in Byzantine : \E item \in ByzItems(b) : ByzInterfere(b, item)
    \/ DeliverCalm
    \/ \E p \in Peers : SendReturns(p)

\* Consensus keeps running rounds and asks every honest peer for its
\* proposal again and again: a peer that has something to contribute in
\* infinitely many rounds contributes, however the Byzantine peer times its
\* own items, and send_event eventually returns.  The Byzantine peer owes
\* nothing.
SpecByzLive ==
    /\ Init
    /\ [][NextByzLive]_vars
    /\ FairDeliverCalm
    /\ \A p \in Peers : WF_vars(SendReturns(p))
    /\ \A p \in Honest : SF_vars(\E n \in FreshNonces(p) : Propose(p, n))

\* ------------------------------------------------------------------------
\* The key generation of the federation
\* ------------------------------------------------------------------------

\* Before key generation: no peer has a configuration, and each honest
\* peer was given its parameters.
InitDkg ==
    /\ InitStore
    /\ cfg = [p \in Peers |-> << >>]
    /\ \E pr \in [Peers -> ParamThresholds] :
         /\ \A b \in Byzantine : pr[b] = Threshold
         /\ dkg = [pc |-> [p \in Peers |-> "start"],
                   handed |-> [p \in Peers |-> << >>],
                   relays |-> [p \in Peers |-> 0],
                   params |-> pr,
                   polys |-> [q \in Peers |-> [p \in Peers |-> NoPoly]],
                   shares |-> [q \in Peers |-> [p \in Peers |-> NoSubmission]]]

store == << db, alive, aggLog, queue, proposed, phase, last, nSign, nByz,
           replica, probe, sending >>

\* What peer p received in the two exchanges.
PolysAt(p) == [q \in Peers |-> dkg.polys[q][p]]
SharesAt(p) == [q \in Peers |-> dkg.shares[q][p]]

\* Peer p enters distributed_gen and hands its public polynomial to
\* exchange_polynomials.
DkgStart(p) ==
    /\ dkg.pc[p] = "start"
    /\ LET my_secret_poly ==
               distributed_gen_polynomial(dkg.params[p], PolySeed(p))
       IN  dkg' = [dkg EXCEPT !.pc[p] = "polys",
                              !.polys[p] = [q \in Peers |->
                                              to_point_poly(my_secret_poly)]]
    /\ UNCHANGED << store, cfg >>

\* An exchange returns Err to p: distributed_gen returns it with `?`.
DkgExchangeFail(p) ==
    /\ dkg.pc[p] \in {"polys", "shares"}
    /\ dkg' = [dkg EXCEPT !.pc[p] = "failed"]
    /\ UNCHANGED << store, cfg >>

\* exchange_polynomials returns to p: new_keygen, then the shares and the
\* proof of possession are handed to exchange_shares_and_pop.
DkgKeygen(p) ==
    /\ dkg.pc[p] = "polys"
    /\ \A q \in Peers : dkg.polys[q][p] # NoPoly
    /\ LET my_secret_poly ==
               distributed_gen_polynomial(dkg.params[p], PolySeed(p))
           r == distributed_gen_shares(my_secret_poly, PolysAt(p))
       IN  dkg' = IF r.result = Panic
                  THEN [dkg EXCEPT !.pc[p] = "failed"]
                  ELSE [dkg EXCEPT !.pc[p] = "shares",
                                   !.shares[p] = [q \in Peers |-> r.submission]]
    /\ UNCHANGED << store, cfg >>

\* exchange_shares_and_pop returns to p: finish_keygen, and the
\* configuration when it succeeds.
DkgFinish(p) ==
    /\ dkg.pc[p] = "shares"
    /\ \A q \in Peers : dkg.shares[q][p] # NoSubmission
    /\ LET r == distributed_gen_finish(dkg.params[p], p, PolysAt(p), SharesAt(p))
       IN  /\ cfg' = [cfg EXCEPT ![p] = r.cfg]
           /\ dkg' = [dkg EXCEPT !.pc[p] =
                                    IF r.result = Ok THEN "done" ELSE "failed"]
    /\ UNCHANGED store

\* The polynomials a Byzantine peer b can hand to a receiver: of either
\* length, and not the same to everyone.
ByzPolyChoices(b) ==
    {[commit |-> c, len |-> l] :
        c \in {PolySeed(b), PolySeed(b) + N}, l \in ParamThresholds}

ByzPolys(b, f) ==
    /\ \A q \in Peers : dkg.polys[b][q] = NoPoly
    /\ dkg' = [dkg EXCEPT !.polys[b] =
                  [q \in Peers |->
                     IF q \in Honest THEN f[q]
                     ELSE to_point_poly(generate_scalar_poly(Threshold, PolySeed(b)))]]
    /\ UNCHANGED << store, cfg >>

\* What b can hand to receiver q in the second exchange, given what q
\* received in the first: the shares and the proof that fit the polynomial
\* b handed to q, a wrong share for q, no share for q, or a wrong proof.
ByzShareChoices(b, q) ==
    LET keygen == new_keygen(public_polys_received(PolysAt(q)))
        my_index == peer_id_to_scalar(q)
        good == create_shares_and_pop(keygen,
                    [seed |-> dkg.polys[b][q].commit, len |-> dkg.polys[b][q].len],
                    keygen_id(keygen))
    IN  [good |-> good,
         share |-> [good EXCEPT !.shares[my_index] = SecretShareOf(0, my_index)],
         none |-> [good EXCEPT !.shares =
                      [i \in DOMAIN good.shares \ {my_index} |-> good.shares[i]]],
         pop |-> [good EXCEPT !.pop = PopOf(0, keygen_id(keygen))]]

ByzShareKinds == {"good", "share", "none", "pop"}

ByzShares(b, f) ==
    /\ \A q, p \in Peers : dkg.polys[q][p] # NoPoly
    /\ \A q \in Peers : dkg.shares[b][q] = NoSubmission
    /\ dkg' = [dkg EXCEPT !.shares[b] =
                  [q \in Peers |->
                     ByzShareChoices(b, q)[IF q \in Honest THEN f[q] ELSE "good"]]]
    /\ UNCHANGED << store, cfg >>

\* The key generation of a federation with a Byzantine peer.
NextDkg ==
    \/ \E p \in Honest : DkgStart(p)
    \/ \E p \in Honest : DkgExchangeFail(p)
    \/ \E p \in Honest : DkgKeygen(p)
    \/ \E p \in Honest : DkgFinish(p)
    \/ \E b \in Byzantine : \E f \in [Honest -> ByzPolyChoices(b)] : ByzPolys(b, f)
    \/ \E b \in Byzantine : \E f \in [Honest -> ByzShareKinds] : ByzShares(b, f)

SpecDkg == InitDkg /\ [][NextDkg]_vars

\* ------------------------------------------------------------------------
\* Vocabulary of the properties
\* ------------------------------------------------------------------------

\* The step applies the head of the queue (no other action shortens it).
DeliverStep == queue # << >> /\ queue' = Tail(queue)

\* The step is a sign_event call: it records the call and leaves all but
\* the store of the peer called and the count of calls as they were (every
\* other step changes the queue, a suspended call, or the bootstrap).
SignStep ==
    /\ last'.op = "sign"
    /\ db' # db \/ nSign' = nSign + 1
    /\ UNCHANGED << alive, aggLog, queue, proposed, phase, nByz, replica,
                    probe, cfg, dkg, sending >>

\* The aggregations peer p ran for message m.
AggsOf(p, m) == {i \in DOMAIN aggLog[p] : aggLog[p][i].msg = m}

\* The signed events peer p handed to its relay for message m.
SentOf(p, m) == {i \in AggsOf(p, m) : aggLog[p][i].sent}

\* share is the partial signature peer q makes for message m under the
\* session the share itself names.
SelfValid(q, share, m) ==
    /\ share.signer = peer_id_to_scalar(q)
    /\ share.session.msg = m
    /\ peer_id_to_scalar(q) \in DOMAIN share.session.nonces
    /\ share.nonce = share.session.nonces[peer_id_to_scalar(q)]

\* ------------------------------------------------------------------------
\* Properties
\* ------------------------------------------------------------------------

\* C1: threshold soundness.  Every aggregation a peer ran combined at
\* least Threshold shares, held under distinct peers, each of them a share
\* its peer made for that message (so it passed verify_signature_share when
\* it was inserted); and an event published by a peer that is running rests
\* on shares that are stored.
C1_ThresholdSoundness ==
    \A p \in Peers : \A i \in DOMAIN aggLog[p] :
        LET e == aggLog[p][i]
        IN  /\ Cardinality(DOMAIN e.sig.shares) >= Threshold
            /\ \A q \in DOMAIN e.sig.shares : SelfValid(q, e.sig.shares[q], e.msg)
            /\ (alive[p] /\ e.sent) => \A q \in DOMAIN e.sig.shares :
                            /\ is_some(db[p].shares, <<e.msg, q>>)
                            /\ db[p].shares[<<e.msg, q>>] = e.sig.shares[q]

\* A peer has published an event for a message.
C1_Witness ==
    \E p \in Peers : \E i \in DOMAIN aggLog[p] : aggLog[p][i].sent

\* C2: AggregationMismatch is unreachable.  Whenever the aggregator runs,
\* the combined signature verifies under the group key.
C2_AggregateVerifies ==
    \A p \in Peers : \A i \in DOMAIN aggLog[p] : aggLog[p][i].valid

\* C3: at most one publication per fingerprint and peer, and no further
\* aggregation for a fingerprint once its event has been published.
C3_PublishedOnce ==
    \A p \in Peers : \A m \in Msgs :
        /\ Cardinality(SentOf(p, m)) <= 1
        /\ \A i \in SentOf(p, m) : \A j \in AggsOf(p, m) : j <= i

\* C4: liveness of a signing job.  Once Threshold peers hold the request
\* for a message, a signed event whose signature verifies is eventually
\* produced for it.
C4_JobCompletes ==
    (Cardinality({p \in Peers : db[p].nonceReq = FirstMsg}) >= Threshold)
        ~> (\E p \in Peers : \E i \in AggsOf(p, FirstMsg) :
                aggLog[p][i].valid /\ aggLog[p][i].sent)

\* C5: an event is handed to the relay only if its signature verified, and
\* an aggregate that fails verification is reported as an error that the
\* peer survives, with nothing published.
C5_PublishOnlyVerified ==
    \A p \in Peers : \A i \in DOMAIN aggLog[p] :
        /\ aggLog[p][i].sent => aggLog[p][i].valid
        /\ ~aggLog[p][i].valid => alive[p]

\* C6: an authenticated sign_event on a peer whose request slot is occupied
\* fails with BusySigner and changes nothing.
C6_BusySigner ==
    [][\A p \in Peers :
         (SignStep /\ last'.res[p] # None /\ last'.auth /\ db[p].nonceReq # None)
            => (last'.res[p] = BusySigner /\ db' = db)]_vars

\* C7: a sign_event without the credential fails with Unauthorized and
\* writes nothing: no slot, nonce or share of any peer changes.
C7_UnauthorizedWritesNothing ==
    [][\A p \in Peers :
         (SignStep /\ last'.res[p] # None /\ ~last'.auth)
            => (last'.res[p] = Unauthorized /\ db' = db
                /\ aggLog' = aggLog /\ alive' = alive /\ queue' = queue)]_vars

\* An unauthenticated call was made on a peer that holds a request.
C7_Witness ==
    /\ last.op = "sign"
    /\ ~last.auth
    /\ \E p \in Peers : last.res[p] = Unauthorized /\ db[p].nonceReq # None

\* C8: a nonce item from a peer whose nonce for the message is already
\* stored fails with DuplicateNonce on every peer that stores it, leaves
\* that peer's store as it was, and the peer keeps running.
C8_DuplicateNonce ==
    [][\A q \in Peers :
         (/\ DeliverStep
          /\ alive[q]
          /\ Head(queue).item.kind = "Nonce"
          /\ is_some(db[q].nonces, <<Head(queue).item.msg, Head(queue).origin>>))
            => (/\ last'.res[q] = DuplicateNonce
                /\ db'[q] = db[q]
                /\ aggLog'[q] = aggLog[q]
                /\ alive'[q])]_vars

\* A second nonce of a peer for a message has been applied and refused
\* while the message was still waiting for its quorum.
C8_Witness ==
    /\ last.op = "apply"
    /\ \E q \in Peers : /\ last.res[q] = DuplicateNonce
                        /\ db[q].nonceReq # None

\* C9: a share item from a peer whose share for the message is already
\* stored fails with DuplicateShare, leaves the store as it was, and runs
\* no aggregation.
C9_DuplicateShare ==
    [][\A q \in Peers :
         (/\ DeliverStep
          /\ alive[q]
          /\ Head(queue).item.kind = "FrostSigShare"
          /\ is_some(db[q].shares, <<Head(queue).item.msg, Head(queue).origin>>))
            => (/\ last'.res[q] = DuplicateShare
                /\ db'[q] = db[q]
                /\ aggLog'[q] = aggLog[q]
                /\ alive'[q])]_vars

\* A second share of a peer for a message has been applied and refused.
C9_Witness ==
    /\ last.op = "apply"
    /\ \E q \in Peers : last.res[q] = DuplicateShare

\* C10: a share that fails verification against the rebuilt session is
\* rejected with InvalidShare and nothing is stored (for an origin without
\* a nonce in the session the library call may panic instead of answering);
\* hence every stored share is a share its peer made for that message under
\* nonces that are stored.
C10_InvalidShare ==
    [][/\ \A q \in Peers :
            (/\ DeliverStep
             /\ alive[q]
             /\ Head(queue).item.kind = "FrostSigShare"
             /\ ~is_some(db[q].shares, <<Head(queue).item.msg, Head(queue).origin>>)
             /\ ~SelfValid(Head(queue).origin, Head(queue).item.val,
                           Head(queue).item.msg)
                \/ Head(queue).item.val.session
                     # session_of(db[q], Head(queue).item.msg))
               => (/\ db'[q] = db[q]
                   /\ aggLog'[q] = aggLog[q]
                   /\ \/ last'.res[q] = InvalidShare
                      \/ /\ last'.res[q] = Panic
                         /\ peer_id_to_scalar(Head(queue).origin) \notin
                              DOMAIN get_nonces(db[q], Head(queue).item.msg))
       /\ \A q \in Peers : \A k \in DOMAIN db'[q].shares :
            /\ SelfValid(k[2], db'[q].shares[k], k[1])
            /\ \A i \in DOMAIN db'[q].shares[k].session.nonces :
                 /\ i \in DOMAIN get_nonces(db'[q], k[1])
                 /\ public(get_nonces(db'[q], k[1])[i])
                      = db'[q].shares[k].session.nonces[i]]_vars

\* A share has been applied and rejected as invalid while the peer that
\* rejected it was waiting for shares of that job.
C10_Witness ==
    /\ last.op = "apply"
    /\ \E q \in Peers : last.res[q] = InvalidShare /\ db[q].signReq # None

\* The entries of message m in a keyed table of one peer.
EntriesOf(map, m) == {k \in DOMAIN map : k[1] = m}

\* C11: at most one NonceEntry and one ShareEntry per (message, peer), and
\* write-once: the tables are keyed by (message, peer), and no step of any
\* peer removes an entry or replaces its value, so the value under a key is
\* the first one accepted in consensus order.
C11_WriteOnce ==
    [][\A q \in Peers :
         /\ \A k \in DOMAIN db[q].nonces :
              /\ k \in DOMAIN db'[q].nonces
              /\ db'[q].nonces[k] = db[q].nonces[k]
         /\ \A k \in DOMAIN db[q].shares :
              /\ k \in DOMAIN db'[q].shares
              /\ db'[q].shares[k] = db[q].shares[k]
         /\ \A k \in DOMAIN db'[q].nonces :
              /\ k \in Msgs \X Peers
              /\ db'[q].nonces[k] = NonceKeyPair(Drawn(k[2], 1))]_vars

\* A later nonce of a peer for a message was offered and refused on a peer
\* that holds nonces of two peers, each still with the first value drawn.
C11_Witness ==
    /\ last.op = "apply"
    /\ \E q \in Peers :
         /\ last.res[q] = DuplicateNonce
         /\ Cardinality(DOMAIN db[q].nonces) >= 2
         /\ \A k \in DOMAIN db[q].nonces :
              db[q].nonces[k] = NonceKeyPair(Drawn(k[2], 1))

\* C12: a ShareEntry for (message, peer) exists only if a NonceEntry for
\* (message, peer) exists: a share of a peer without a nonce for the
\* message is never stored.
C12_ShareNeedsNonce ==
    \A q \in Peers : \A k \in DOMAIN db[q].shares : k \in DOMAIN db[q].nonces

\* The only item the Byzantine peer injected was a share, for a message it
\* has no nonce for; it has been applied and refused, and no job has reached
\* its share round, so the refusal is that of the Byzantine share.
C12_Witness ==
    /\ last.op = "apply"
    /\ nByz = 1
    /\ queue = << >>
    /\ \E q \in Honest :
         /\ last.res[q] = InvalidShare
         /\ \A b \in Byzantine : \A m \in Msgs : ~is_some(db[q].nonces, <<m, b>>)
    /\ \A p \in Peers : db[p].shares = EmptyMap /\ db[p].signReq = None

\* C13: whenever MessageSignRequest holds a message on a peer, the peer's
\* own nonce for it is stored, so the own-nonce lookup of the proposal
\* generator (the .expect) cannot fail and no peer stops in it.
C13_OwnNonceStored ==
    \A p \in Peers :
        /\ db[p].signReq # None => is_some(db[p].nonces, <<db[p].signReq, p>>)
        /\ ~own_nonce_missing(db[p], p)

\* A nonce quorum was reached for a message on two peers that have run no
\* aggregation for it: one contributed a nonce and holds the sign request,
\* the other did not and holds none.
C13_Witness ==
    \E p \in Peers, q \in Peers, m \in Msgs :
        /\ db[p].signReq = m
        /\ db[q].signReq = None
        /\ ~is_some(db[q].nonces, <<m, q>>)
        /\ reached_threshold(Cardinality(EntriesOf(db[q].nonces, m)))
        /\ AggsOf(q, m) = {}
        /\ alive[p] /\ alive[q]

\* The sessions a peer's state holds for message m: the one it would sign
\* or verify under now, those its stored shares were verified under, and
\* those its aggregations ran under.
SessionsOf(p, m) ==
    {session_of(db[p], m)}
    \cup {db[p].shares[k].session : k \in EntriesOf(db[p].shares, m)}
    \cup {aggLog[p][i].sig.session : i \in AggsOf(p, m)}

\* C14: every session built for a message once its job signs (for signing,
\* for share verification, for aggregation) has exactly Threshold nonces; a
\* later accepted nonce is part of no session.
C14_SessionOfFirstT ==
    \A p \in Peers : \A m \in Msgs :
        (db[p].signReq = m \/ EntriesOf(db[p].shares, m) # {} \/ AggsOf(p, m) # {})
            => \A session \in SessionsOf(p, m) :
                   Cardinality(DOMAIN session.nonces) = Threshold

\* C15: agreement.  Peers that have processed the same items (all running
\* peers with no call suspended, since an item is applied on all of them)
\* hold the same nonces and
\* shares, build the same session for every message, have crossed the
\* nonce threshold for the same messages (the sign request is set exactly
\* on those that contributed a nonce) and have run the same aggregations.
C15_Agreement ==
    \A p \in Peers, q \in Peers :
        (alive[p] /\ alive[q] /\ sending[p] = NoSend /\ sending[q] = NoSend) =>
            /\ db[p].nonces = db[q].nonces
            /\ db[p].shares = db[q].shares
            /\ \A m \in Msgs : session_of(db[p], m) = session_of(db[q], m)
            /\ aggLog[p] = aggLog[q]
            /\ \A m \in Msgs :
                 (db[p].signReq = m /\ is_some(db[q].nonces, <<m, q>>)
                    /\ db[q].signReq = None) => AggsOf(q, m) # {}

\* Two running peers whose local intake differs (one holds a sign request,
\* the other does not) have both stored a share.
C15_Witness ==
    \E p \in Peers, q \in Peers :
        /\ alive[p] /\ alive[q]
        /\ sending[p] = NoSend /\ sending[q] = NoSend
        /\ db[p].signReq # None
        /\ db[q].signReq = None
        /\ db[p].shares # EmptyMap
        /\ db[q].shares # EmptyMap

\* C16: replay.  A fresh replica of a peer that has applied the ordered
\* items the peer has applied (no call of the peer is suspended), in order,
\* has the peer's signed events and the peer's store: nonces, shares,
\* MessageNonceRequest, MessageSignRequest.
C16_ReplayIdempotent ==
    \A p \in Peers :
        (alive[p] /\ sending[p] = NoSend) =>
            /\ replica[p].aggLog = aggLog[p]
            /\ replica[p].db = db[p]

\* The number of nonces peer q has stored for message m.
NonceCount(q, m) == Cardinality(EntriesOf(db[q].nonces, m))

\* C17: below-threshold stall.  In the state a step leads to, a running
\* peer with fewer than Threshold nonces for a message does not hold it in
\* MessageSignRequest, has aggregated nothing for it, and no share of an
\* honest peer for it is proposed; and a peer that holds the message in
\* MessageNonceRequest keeps it there, whatever the step is, as long as it
\* has stored fewer than Threshold nonces for it.
C17_BelowThresholdStall ==
    [][\A q \in Peers : \A m \in Msgs :
         (alive'[q] /\ Cardinality(EntriesOf(db'[q].nonces, m)) < Threshold)
            => /\ db'[q].signReq # m
               /\ \A i \in DOMAIN aggLog'[q] : aggLog'[q][i].msg # m
               /\ \A i \in DOMAIN queue' :
                    ~(/\ queue'[i].origin \in Honest
                      /\ queue'[i].item.kind = "FrostSigShare"
                      /\ queue'[i].item.msg = m)
               /\ db[q].nonceReq = m => db'[q].nonceReq = m]_vars

\* The next item to apply is a share of a Byzantine peer for message m, a
\* peer whose nonce is in the session, that the running honest peers will
\* refuse as invalid.
ByzShareRefused(m) ==
    /\ queue # << >>
    /\ Head(queue).origin \in Byzantine
    /\ Head(queue).item.kind = "FrostSigShare"
    /\ Head(queue).item.msg = m
    /\ \A q \in Honest :
         /\ alive[q]
         /\ ~share_already_received(db[q], m, Head(queue).origin)
         /\ peer_id_to_scalar(Head(queue).origin)
              \in DOMAIN session_of(db[q], m).nonces
         /\ share_is_invalid(session_of(db[q], m),
                             peer_id_to_scalar(Head(queue).origin),
                             Head(queue).item.val)

\* C18: tolerance of an invalid share.  When a Byzantine share for a
\* message is refused while Threshold honest peers take part in its job
\* (each holds the request or the sign request for it), a signed event whose
\* signature verifies is eventually produced for the message.
C18_InvalidShareTolerated ==
    (/\ ByzShareRefused(FirstMsg)
     /\ Cardinality({p \in Honest : \/ db[p].nonceReq = FirstMsg
                                    \/ db[p].signReq = FirstMsg}) >= Threshold)
        ~> (\E p \in Honest : \E i \in AggsOf(p, FirstMsg) :
                aggLog[p][i].valid /\ aggLog[p][i].sent)

\* C19: publication is decoupled from the signing state.  When the relay
\* does not take a signed event whose signature verifies, the peer that
\* applied the triggering share keeps running, the combined shares are
\* stored and MessageSignRequest no longer holds the message.
C19_PublishDecoupled ==
    \A p \in Peers : \A i \in DOMAIN aggLog[p] :
        LET e == aggLog[p][i]
        IN  (e.valid /\ ~e.sent) =>
                /\ alive[p]
                /\ \A q \in DOMAIN e.sig.shares :
                     is_some(db[p].shares, <<e.msg, q>>)
                /\ db[p].signReq # e.msg

\* C20: no consensus item crashes the processor.  Applying an item, up to
\* and including the return of send_event, leaves every running peer
\* running, with a result other than a panic.
C20_ApplyNeverPanics ==
    [][(DeliverStep \/ \E p \in Peers : sending[p] # NoSend /\ sending'[p] = NoSend) =>
         \A q \in Peers : alive[q] => (alive'[q] /\ last'.res[q] # Panic)]_vars

\* ------------------------------------------------------------------------
\* The nonce and the key material on the wire
\* ------------------------------------------------------------------------

\* The ordered Nonce items that honest peers contributed.
HonestNonceItems ==
    {i \in DOMAIN queue :
        queue[i].origin \in Honest /\ queue[i].item.kind = "Nonce"}

\* The nonce entries peer q stores for other honest peers.
ForeignNonces(q) ==
    {k \in DOMAIN db[q].nonces : k[2] # q /\ k[2] \in Honest}

\* C21: a Nonce item on the consensus log, and the nonce entry every peer
\* stores from it, carries only the public commitment; the secret half of an
\* honest peer's nonce is in no item and in no entry another peer stores.
C21_SecretNonceStaysLocal ==
    /\ \A i \in HonestNonceItems :
         "secret" \notin DOMAIN queue[i].item.val
    /\ \A q \in Peers : \A k \in ForeignNonces(q) :
         "secret" \notin DOMAIN db[q].nonces[k]

\* The secret share of an honest peer is the value of an ordered item or a
\* share of a signature that a peer aggregated.
SecretShareRevealed ==
    \E p \in Honest :
        /\ cfg[p] # << >>
        /\ LET my_secret_share == Head(cfg[p]).private.my_secret_share
           IN  \/ \E i \in DOMAIN queue : queue[i].item.val = my_secret_share
               \/ \E q \in Peers : \E i \in DOMAIN aggLog[q] :
                    \E k \in DOMAIN aggLog[q][i].sig.shares :
                        aggLog[q][i].sig.shares[k] = my_secret_share

\* C22: the key material is write-once.  No sign_event call, no proposal
\* and no applied item changes a peer's configuration (group key, threshold,
\* secret share), and no step puts a secret share into an ordered item or a
\* signed event.
C22_KeyMaterialWriteOnce ==
    [][cfg' = cfg /\ ~SecretShareRevealed']_vars

\* A peer has signed with its secret share: its share item is ordered and a
\* signed event was made, with every configuration as key generation left it.
C22_Witness ==
    /\ \E i \in DOMAIN queue :
         queue[i].origin \in Honest /\ queue[i].item.kind = "FrostSigShare"
    /\ \E p \in Honest : aggLog[p] # << >>
    /\ nSign > 0
    /\ \A p \in Peers : cfg[p] = CleanConfig(p)

\* Every polynomial, share and proof of possession that p received passes
\* validation: the polynomials have one length, and every sender's share
\* for p and proof fit the polynomial p received from that sender.
ValidAt(p) ==
    LET my_index == peer_id_to_scalar(p)
    IN  \A q \in Peers :
            /\ dkg.polys[q][p] # NoPoly
            /\ dkg.polys[q][p].len = dkg.polys[p][p].len
            /\ my_index \in DOMAIN dkg.shares[q][p].shares
            /\ dkg.shares[q][p].shares[my_index] =
                   SecretShareOf(dkg.polys[q][p].commit, my_index)
            /\ dkg.shares[q][p].pop =
                   PopOf(dkg.polys[q][p].commit,
                         public_polys_received(PolysAt(p)))

\* C23: key generation is all-or-nothing.  A peer holds a configuration
\* only after distributed_gen ran to its end with every received
\* polynomial, share and proof valid; a peer whose run failed, by a failed
\* exchange or a failed validation, holds none.
C23_DkgAllOrNothing ==
    \A p \in Honest :
        /\ cfg[p] # << >> => dkg.pc[p] = "done" /\ ValidAt(p)
        /\ dkg.pc[p] # "done" => cfg[p] = << >>

\* A peer received everything, something it received was invalid, and its
\* run failed without a configuration, while another peer finished.
C23_Witness ==
    \E p, q \in Honest :
        /\ dkg.pc[p] = "failed"
        /\ \A s \in Peers : dkg.shares[s][p] # NoSubmission
        /\ ~ValidAt(p)
        /\ cfg[p] = << >>
        /\ cfg[q] # << >>

\* The honest peers that hold a configuration agree on the group key that
\* the npub endpoint answers and on the threshold.
KeyAgreement ==
    \A p, q \in Honest :
        cfg[p] # << >> /\ cfg[q] # << >> =>
            /\ npub(Head(cfg[p])) = npub(Head(cfg[q]))
            /\ Head(cfg[p]).consensus.threshold = Head(cfg[q]).consensus.threshold
            /\ Head(cfg[p]).consensus.frost_key = Head(cfg[q]).consensus.frost_key

\* ------------------------------------------------------------------------
\* From key generation to the first signed event
\* ------------------------------------------------------------------------

\* Key generation with the same threshold in every peer's parameters.
InitKey ==
    /\ InitDkg
    /\ \A p \in Peers : dkg.params[p] = Threshold

\* The federation signs once every honest peer holds its configuration.
KeyGenerated == \A p \in Honest : cfg[p] # << >>

\* What a Byzantine peer contributes to a signing round after the key
\* generation: a nonce of its own, or a share that is none.
ByzKeyItems(b) ==
    {NonceItem(m, NonceKeyPair(Drawn(b, 1))) : m \in Msgs}
    \cup {ShareItem(m, GarbageShare) : m \in Msgs}

ByzAfterKeygen(b, item) == KeyGenerated /\ ByzPropose(b, item)

SignAfterKeygen(p) == KeyGenerated /\ RequestJob(p)

ProposeAfterKeygen(p, n) == KeyGenerated /\ Propose(p, n)

NextKey ==
    \/ \E p \in Honest : DkgStart(p)
    \/ \E p \in Honest : DkgExchangeFail(p)
    \/ \E p \in Honest : DkgKeygen(p)
    \/ \E p \in Honest : DkgFinish(p)
    \/ \E b \in Byzantine : \E f \in [Honest -> ByzPolyChoices(b)] : ByzPolys(b, f)
    \/ \E b \in Byzantine : \E f \in [Honest -> ByzShareKinds] : ByzShares(b, f)
    \/ \E p \in Honest : SignAfterKeygen(p)
    \/ \E p \in Honest : \E n \in FreshNonces(p) : ProposeAfterKeygen(p, n)
    \/ \E b \in Byzantine : \E item \in ByzKeyItems(b) : ByzAfterKeygen(b, item)
    \/ Deliver
    \/ \E p \in Peers : SendReturns(p)
    \/ \E p \in FlakyRelay : SendCrash(p)

SpecKey == InitKey /\ [][NextKey]_vars

\* The secret share of p is a share of the group key p holds.
ShareOfGroupKey(p) ==
    Head(cfg[p]).private.my_secret_share.sum =
        Head(cfg[p]).consensus.frost_key.public_key.x

\* C24: after key generation the honest peers hold the same group key and
\* the same threshold, the npub endpoint answers the same on all of them,
\* every secret share is a share of that key, and every signed event that
\* is produced carries a signature that verifies under it.
C24_GroupKey ==
    /\ KeyAgreement
    /\ \A p \in Honest : cfg[p] # << >> => ShareOfGroupKey(p)
    /\ \A p \in Honest : \A i \in DOMAIN aggLog[p] :
         aggLog[p][i].sent => aggLog[p][i].valid

\* ------------------------------------------------------------------------
\* The peer-index map on every peer id
\* ------------------------------------------------------------------------

\* The peer ids at the ends of the range and around the powers of two
\* where a narrower conversion would wrap.
EdgeIds == {0, 1, N - 1, 255, 256, 32767, 32768, U16Max - 1, U16Max}

\* peer_id_to_scalar is applied to the next peer id and to the one before
\* it, through the whole range.
IndexNext ==
    /\ probe.a < U16Max
    /\ probe.a = probe.b \/ probe.a = probe.b + 1
    /\ probe' = Probe(probe.a + 1, probe.a)
    /\ UNCHANGED << db, alive, aggLog, queue, proposed, phase, last, nSign,
                    nByz, replica, cfg, dkg, sending >>

\* peer_id_to_scalar is applied to two peer ids.
IndexPair(a, b) ==
    /\ probe = Probe(0, 0)
    /\ probe' = Probe(a, b)
    /\ UNCHANGED << db, alive, aggLog, queue, proposed, phase, last, nSign,
                    nByz, replica, cfg, dkg, sending >>

NextIndex ==
    \/ IndexNext
    \/ \E a, b \in EdgeIds : IndexPair(a, b)

SpecIndex == Init /\ [][NextIndex]_vars

\* C25: peer_id_to_scalar is total, nonzero and injective: for every
\* 16-bit peer id it returns the ordinal plus one, which is never zero and
\* never wrapped by the conversion to 32 bits, and different peer ids get
\* different scalars.
C25_IndexMap ==
    /\ probe.ia = probe.a + 1
    /\ probe.ib = probe.b + 1
    /\ probe.ia # 0 /\ probe.ib # 0
    /\ probe.a # probe.b => probe.ia # probe.ib

\* The map was applied to the largest peer id and to the one before it.
C25_Witness ==
    /\ probe.a = U16Max
    /\ probe.b = U16Max - 1
    /\ probe.ia = 65536

\* ------------------------------------------------------------------------
\* The proposal generator
\* ------------------------------------------------------------------------

\* The positions of the items that the step appends to the round.
Appended == {i \in DOMAIN queue' : i > Len(queue)}

\* C26: a peer proposes a nonce for a message only while its store holds no
\* nonce of its own for that message; once its nonce was accepted it
\* proposes no further nonce for the message.
C26_NonceProposedOnce ==
    [][\A i \in Appended :
          queue'[i].origin \in Honest /\ queue'[i].item.kind = "Nonce" =>
              ~is_some(db[queue'[i].origin].nonces,
                       <<queue'[i].item.msg, queue'[i].origin>>)]_vars

\* C27: in one round a peer contributes at most one item for a message, a
\* nonce or a share and never both, and consensus_proposal returns the
\* empty list on a peer that holds neither request.
C27_OneItemPerJob ==
    [][/\ \A i, j \in Appended :
            i # j /\ queue'[i].origin = queue'[j].origin
                => queue'[i].item.msg # queue'[j].item.msg
       /\ \A p \in Honest :
            db[p].nonceReq = None /\ db[p].signReq = None =>
                \A n \in NonceVals :
                    consensus_proposal(db[p], Head(cfg[p]), n) = << >>]_vars

\* The kinds and messages of a list of items, and its share items whole.
Shape(items) ==
    [i \in DOMAIN items |->
        IF items[i].kind = "FrostSigShare" THEN items[i]
        ELSE [kind |-> items[i].kind, msg |-> items[i].msg]]

\* C28: consensus_proposal is idempotent.  Two calls in the same store
\* state return the same kinds of items for the same messages in the same
\* order, and the same share; only the nonce of a Nonce item may differ.
C28_ProposalIdempotent ==
    \A p \in Honest :
        alive[p] /\ ~own_nonce_missing(db[p], p) =>
            \A n1, n2 \in NonceVals :
                Shape(consensus_proposal(db[p], Head(cfg[p]), Drawn(p, n1))) =
                Shape(consensus_proposal(db[p], Head(cfg[p]), Drawn(p, n2)))

\* A peer holds both requests: two calls of consensus_proposal return a
\* nonce and a share each, with different nonces.
C28_Witness ==
    \E p \in Honest : \E n1, n2 \in NonceVals :
        /\ alive[p] /\ ~own_nonce_missing(db[p], p)
        /\ db[p].nonceReq # None /\ db[p].signReq # None
        /\ consensus_proposal(db[p], Head(cfg[p]), Drawn(p, n1)) #
           consensus_proposal(db[p], Head(cfg[p]), Drawn(p, n2))

\* The ordered share items that honest peers contributed.
HonestShareItems ==
    {i \in DOMAIN queue :
        queue[i].origin \in Honest /\ queue[i].item.kind = "FrostSigShare"}

\* C29: the rounds of a job are ordered.  An honest peer proposes a share
\* for a message only when its store holds at least Threshold nonces for
\* it, and on every running peer the share item is ordered after the nonce
\* that brought the count to the threshold.
C29_ShareAfterNonceQuorum ==
    /\ \A i \in HonestShareItems : \A q \in Peers :
         alive[q] => NonceCount(q, queue[i].item.msg) >= Threshold
    /\ \A p \in Honest :
         alive[p] /\ db[p].signReq # None =>
             NonceCount(p, db[p].signReq) >= Threshold

\* The share of an honest peer is ordered and waits to be applied.
C29_Witness ==
    \E i \in HonestShareItems :
        /\ alive[queue[i].origin]
        /\ NonceCount(queue[i].origin, queue[i].item.msg) = Threshold

\* C30: a nonce quorum for one message clears MessageNonceRequest only when
\* the request is for that message; while a Nonce item for message f is
\* applied, a request for another message stays as it is.
C30_QuorumClearsOwnRequest ==
    [][DeliverStep /\ Head(queue).item.kind = "Nonce" =>
          \A p \in Honest :
              alive[p] /\ db[p].nonceReq \notin {None, Head(queue).item.msg}
                  => db'[p].nonceReq = db[p].nonceReq]_vars

\* ------------------------------------------------------------------------
\* The two request slots while items are applied
\* ------------------------------------------------------------------------

\* The item being applied is a Nonce item, a FrostSigShare item.
NonceApplied == DeliverStep /\ Head(queue).item.kind = "Nonce"
ShareApplied == DeliverStep /\ Head(queue).item.kind = "FrostSigShare"

\* The number of nonces peer q stores for m after the step.
NonceCountAfter(q, m) == Cardinality(EntriesOf(db'[q].nonces, m))

\* The step brings the nonce count for m on peer p to the threshold.
CrossesNonceQuorum(p, m) ==
    NonceCount(p, m) < Threshold /\ NonceCountAfter(p, m) >= Threshold

\* C31: the Nonce item that brings the count for a message to the threshold
\* sets MessageSignRequest to the message on exactly the peers whose own
\* nonce is among the stored ones; a peer left out of that quorum keeps its
\* MessageSignRequest as it is, then and when later nonces for the message
\* are applied, so it never signs for the job.
C31_SignRequestIffInQuorum ==
    [][NonceApplied =>
          \A p \in Honest :
              alive[p] /\ alive'[p] =>
                  LET m == Head(queue).item.msg
                      included == is_some(db'[p].nonces, <<m, p>>)
                  IN  IF CrossesNonceQuorum(p, m) /\ included
                      THEN db'[p].signReq = m
                      ELSE db'[p].signReq = db[p].signReq]_vars

\* ------------------------------------------------------------------------
\* Sessions
\* ------------------------------------------------------------------------

\* C32: the session under which shares are combined is the session under
\* which each of them was verified when it was stored (a stored share
\* verified under the session it was made for, so that is the session it
\* carries); no nonce applied in between changes it.
C32_AggregationSession ==
    \A p \in Peers : \A i \in DOMAIN aggLog[p] :
        \A k \in DOMAIN aggLog[p][i].sig.shares :
            aggLog[p][i].sig.shares[k].session = aggLog[p][i].sig.session

\* C33: the session an honest peer signs under in consensus_proposal is the
\* session every peer rebuilds when the share is applied, whatever nonces
\* were applied in between: no peer answers the share item of an honest
\* peer with InvalidShare.
C33_HonestShareAccepted ==
    [][ShareApplied /\ Head(queue).origin \in Honest =>
          \A p \in Peers : last'.res[p] # InvalidShare]_vars

\* ------------------------------------------------------------------------
\* A job that is requested again
\* ------------------------------------------------------------------------

\* sign_event(FirstMsg) by the administrator on a peer that has finished
\* the job: its nonce for the message is stored, its store holds a nonce
\* quorum for it, and it has combined the shares.
RequestAgain(p) ==
    /\ alive[p]
    /\ nSign < MaxSign - 1
    /\ db[p].nonceReq = None
    /\ db[p].signReq = None
    /\ aggLog[p] # << >>
    /\ is_some(db[p].nonces, <<FirstMsg, p>>)
    /\ NonceCount(p, FirstMsg) >= Threshold
    /\ LET r == sign_event(db[p], FirstMsg, TRUE)
       IN  /\ db' = [db EXCEPT ![p] = r.db]
           /\ last' = Last("sign", TRUE, [NoRes EXCEPT ![p] = r.result])
    /\ nSign' = nSign + 1
    /\ UNCHANGED << alive, aggLog, queue, proposed, phase, nByz, replica,
                    probe, cfg, dkg, sending >>

NextAgain ==
    \/ \E p \in Peers : RequestJob(p)
    \/ \E p \in Peers : RequestAgain(p)
    \/ \E p \in Peers : \E n \in FreshNonces(p) : Propose(p, n)
    \/ DeliverCalm
    \/ \E p \in Peers : SendReturns(p)

\* Consensus keeps running rounds: an ordered item is eventually applied,
\* send_event eventually returns, and a peer that has something to
\* contribute eventually contributes.
SpecAgain ==
    /\ Init
    /\ [][NextAgain]_vars
    /\ FairDeliverCalm
    /\ \A p \in Peers : WF_vars(SendReturns(p))
    /\ \A p \in Peers : WF_vars(\E n \in FreshNonces(p) : Propose(p, n))

\* C34: MessageNonceRequest is removed once enough nonces are collected.
\* While rounds continue, a running peer whose request is for a message
\* with at least Threshold stored nonces eventually holds the request no
\* more, also when the request was made after the quorum with the peer's
\* own nonce already stored.
C34_RequestEventuallyCleared ==
    \A p \in Peers :
        (alive[p] /\ db[p].nonceReq = FirstMsg
                  /\ NonceCount(p, FirstMsg) >= Threshold)
            ~> (db[p].nonceReq # FirstMsg)

\* ------------------------------------------------------------------------
\* The states of a job
\* ------------------------------------------------------------------------

\* Peer p has met the share quorum for m and MessageSignRequest no longer
\* holds m: the job is done on p.
JobDone(p, m) == alive[p] /\ AggsOf(p, m) # {} /\ db[p].signReq # m

\* C35: the job only moves forward.  Once the share quorum for a message
\* was met on a peer and MessageSignRequest removed, no step sets
\* MessageSignRequest to that message again, and eventually the peer holds
\* no request for it and proposes nothing more for it.
C35_JobMovesForward ==
    /\ [][\A p \in Peers :
             JobDone(p, FirstMsg) => db'[p].signReq # FirstMsg]_vars
    /\ \A p \in Peers :
         JobDone(p, FirstMsg)
             ~> [](db[p].nonceReq # FirstMsg /\ db[p].signReq # FirstMsg)

\* ------------------------------------------------------------------------
\* The threshold of a configuration
\* ------------------------------------------------------------------------

\* The thresholds a configuration handed to a peer may name.
ConfigThresholds == 0 .. N + 1

\* resolvr_common::KIND
KIND == "resolvr"

\* init returned Err.
Err == "Err"

\* A ServerModuleConfig: the configuration of a module of some kind, in
\* its erased form.
ServerModuleConfig(kind, config) == [kind |-> kind, config |-> config]

\* ServerModuleConfig::to_typed: the ResolvrConfig, or Err for a
\* configuration that is not one of this module.
to_typed(config) ==
    IF config.kind = KIND THEN [result |-> Ok, cfg |-> << config.config >>]
    ELSE [result |-> Err, cfg |-> << >>]

\* XOnlyPublicKey::from_slice: Err for bytes that are no x coordinate of a
\* point (the empty sum).
from_slice(data) == data # {}

\* ServerModuleInit::validate_config: Ok(()) for every identity and every
\* configuration.
validate_config(identity, config) == Ok

\* The configurations peer p may be handed instead of generating one: its
\* key material with any threshold, or a configuration of another module.
OfferedConfigs(p) ==
    {ServerModuleConfig(KIND,
        ResolvrConfig(Head(CleanConfig(p)).private.my_secret_share, p, t,
                      Head(CleanConfig(p)).consensus.frost_key)) :
        t \in ConfigThresholds}
    \cup {ServerModuleConfig("dummy", Head(CleanConfig(p)))}

\* The relays Resolvr::new adds to the client, in this order.
Relays == << "wss://relay.damus.io", "wss://relay.snort.social",
             "wss://nostr.wine", "wss://nos.lol" >>

\* Peer p, which did not start a key generation, is handed a configuration
\* and validate_config is called on it.
ValidateConfig(p, config) ==
    /\ dkg.pc[p] = "start"
    /\ cfg[p] = << >>
    /\ LET r == validate_config(p, config)
       IN  /\ last' = Last("validate_config", FALSE, [NoRes EXCEPT ![p] = r])
           /\ dkg' = [dkg EXCEPT !.pc[p] = IF r = Ok THEN "validated" ELSE "failed",
                                 !.handed[p] = IF r = Ok THEN << config >> ELSE << >>]
    /\ UNCHANGED << db, alive, aggLog, queue, proposed, phase, nSign, nByz,
                    replica, probe, sending, cfg >>

\* The server calls init with the validated configuration: to_typed()?
\* returns Err for one that does not decode, from_slice(..).expect(..)
\* panics for a key that is no x-only key, and Resolvr::new is suspended at
\* its first add_relay.  No module exists yet.
ModuleInit(p) ==
    /\ dkg.pc[p] = "validated"
    /\ LET typed == to_typed(Head(dkg.handed[p]))
           r == IF typed.result # Ok THEN Err
                ELSE IF ~from_slice(npub(Head(typed.cfg))) THEN Panic
                ELSE Pending
       IN  /\ last' = Last("init", FALSE, [NoRes EXCEPT ![p] = r])
           /\ dkg' = [dkg EXCEPT !.pc[p] = IF r = Pending THEN "add_relay"
                                           ELSE "failed",
                                 !.handed[p] = IF r = Pending THEN @ ELSE << >>]
    /\ UNCHANGED << db, alive, aggLog, queue, proposed, phase, nSign, nByz,
                    replica, probe, sending, cfg >>

\* add_relay returns to Resolvr::new of peer p: on Err init returns it with
\* `?` and no module is built; on Ok the next relay is added, and after the
\* last one the call is suspended at connect.
AddRelayReturns(p, added) ==
    /\ dkg.pc[p] = "add_relay"
    /\ LET count == dkg.relays[p] + 1
       IN  /\ last' = Last("init", FALSE,
                           [NoRes EXCEPT ![p] = IF added THEN Pending ELSE Err])
           /\ dkg' = [dkg EXCEPT
                        !.pc[p] = IF ~added THEN "failed"
                                  ELSE IF count = Len(Relays) THEN "connect"
                                  ELSE "add_relay",
                        !.relays[p] = IF added THEN count ELSE 0,
                        !.handed[p] = IF added THEN @ ELSE << >>]
    /\ UNCHANGED << db, alive, aggLog, queue, proposed, phase, nSign, nByz,
                    replica, probe, sending, cfg >>

\* connect returns to Resolvr::new of peer p: the module is built and holds
\* the configuration; init returns Ok.
ConnectReturns(p) ==
    /\ dkg.pc[p] = "connect"
    /\ last' = Last("init", FALSE, [NoRes EXCEPT ![p] = Ok])
    /\ cfg' = [cfg EXCEPT ![p] = to_typed(Head(dkg.handed[p])).cfg]
    /\ dkg' = [dkg EXCEPT !.pc[p] = "done"]
    /\ UNCHANGED << db, alive, aggLog, queue, proposed, phase, nSign, nByz,
                    replica, probe, sending >>

\* Bootstrap: each peer either takes part in the key generation or is
\* handed a configuration, with which the server then initialises the
\* module.
NextBoot ==
    \/ \E p \in Honest : DkgStart(p)
    \/ \E p \in Honest : DkgExchangeFail(p)
    \/ \E p \in Honest : DkgKeygen(p)
    \/ \E p \in Honest : DkgFinish(p)
    \/ \E b \in Byzantine : \E f \in [Honest -> ByzPolyChoices(b)] : ByzPolys(b, f)
    \/ \E b \in Byzantine : \E f \in [Honest -> ByzShareKinds] : ByzShares(b, f)
    \/ \E p \in Honest : \E config \in OfferedConfigs(p) : ValidateConfig(p, config)
    \/ \E p \in Honest : ModuleInit(p)
    \/ \E p \in Honest : \E added \in BOOLEAN : AddRelayReturns(p, added)
    \/ \E p \in Honest : ConnectReturns(p)

SpecBoot == InitDkg /\ [][NextBoot]_vars

\* C36: every configuration a peer holds after bootstrap, generated or
\* handed to it, and every configuration of this module that passed
\* validate_config, names a threshold t with 1 <= t <= N.
C36_ThresholdInRange ==
    \A p \in Peers :
        /\ cfg[p] # << >> => Head(cfg[p]).consensus.threshold \in 1 .. N
        /\ \A c \in {to_typed(dkg.handed[p][i]) : i \in DOMAIN dkg.handed[p]} :
             c.result = Ok => Head(c.cfg).consensus.threshold \in 1 .. N

\* ------------------------------------------------------------------------
\* One nonce, one session
\* ------------------------------------------------------------------------

\* C37: no nonce is used under two sessions.  A share an honest peer
\* proposes for a message, made with the nonce of a share of that peer
\* already stored for the message on some peer, is made under the session
\* of that stored share.
C37_NoNonceReuse ==
    \A i \in HonestShareItems : \A q \in Peers :
        LET it == queue[i].item
            k == << it.msg, queue[i].origin >>
        IN  (alive[q] /\ is_some(db[q].shares, k)
                /\ db[q].shares[k].nonce = it.val.nonce)
                => db[q].shares[k].session = it.val.session

\* ------------------------------------------------------------------------
\* Writing and clearing MessageSignRequest
\* ------------------------------------------------------------------------

\* The step stores a nonce for m on peer p and runs
\* insert_new_entry(&MessageSignRequest, m): the count has reached the
\* threshold and p's own nonce is stored.
WritesSignRequest(p, m) ==
    /\ EntriesOf(db'[p].nonces, m) # EntriesOf(db[p].nonces, m)
    /\ NonceCountAfter(p, m) >= Threshold
    /\ is_some(db'[p].nonces, << m, p >>)

\* C38: MessageSignRequest is written only when it is empty: a Nonce item
\* applied on a peer writes it only if the peer holds no MessageSignRequest,
\* neither for the same message nor for another one.
C38_SignRequestWrittenWhenEmpty ==
    [][NonceApplied =>
          \A p \in Honest :
              (alive[p] /\ alive'[p]
                 /\ WritesSignRequest(p, Head(queue).item.msg))
                  => db[p].signReq = None]_vars

\* The message of a second job.
SecondMsg == CHOOSE m \in Msgs : m # FirstMsg

\* sign_event(SecondMsg) by the administrator on a peer whose first job
\* awaits shares, and which has not contributed a nonce for the second
\* message yet: a second job started while the first one is under way.
RequestSecond(p) ==
    /\ alive[p]
    /\ db[p].nonceReq = None
    /\ db[p].signReq = FirstMsg
    /\ ~is_some(db[p].nonces, <<SecondMsg, p>>)
    /\ LET r == sign_event(db[p], SecondMsg, TRUE)
       IN  /\ db' = [db EXCEPT ![p] = r.db]
           /\ last' = Last("sign", TRUE, [NoRes EXCEPT ![p] = r.result])
    /\ UNCHANGED << alive, aggLog, queue, proposed, phase, nSign, nByz,
                    replica, probe, cfg, dkg, sending >>

\* The peers the administrator submits both events to.
Signers == 0 .. Threshold - 1

\* Two signing jobs, submitted to the same peers, in a federation whose
\* peers all follow the protocol.
NextTwo ==
    \/ \E p \in Signers : RequestJob(p)
    \/ \E p \in Signers : RequestSecond(p)
    \/ \E p \in Peers : \E n \in FreshNonces(p) : Propose(p, n)
    \/ DeliverCalm
    \/ \E p \in Peers : SendReturns(p)

SpecTwo == Init /\ [][NextTwo]_vars

\* C39: a share quorum for one message clears MessageSignRequest only when
\* it holds that message; while a FrostSigShare item for message f is
\* applied, a MessageSignRequest for another message stays as it is.
C39_QuorumClearsOwnSignRequest ==
    [][/\ ShareApplied =>
            \A p \in Peers :
                (alive[p] /\ alive'[p]
                   /\ db[p].signReq \notin {None, Head(queue).item.msg})
                    => db'[p].signReq = db[p].signReq
       /\ \A p \in Peers :
            (sending[p] # NoSend /\ sending'[p] = NoSend /\ alive'[p]
               /\ db[p].signReq \notin {None, sending[p].agg[1].msg})
                => db'[p].signReq = db[p].signReq]_vars

\* ------------------------------------------------------------------------
\* What each operation writes
\* ------------------------------------------------------------------------

\* send_event returns to a suspended call of process_consensus_item.
SendStep == \E p \in Peers : sending[p] # NoSend /\ sending'[p] = NoSend

\* A peer contributes to the round being formed.
ProposeStep == proposed' # proposed /\ proposed \subseteq proposed'

\* C40: proposal generation is read-only.  A step in which a peer
\* contributes what consensus_proposal returns leaves both request slots,
\* every stored nonce and every stored share of every peer unchanged; a
\* sign_event call changes nothing but MessageNonceRequest; and a store
\* changes only in a sign_event call or while a consensus item is applied.
C40_ProposalReadOnly ==
    [][/\ ProposeStep => db' = db
       /\ SignStep =>
            \A p \in Peers :
                /\ db'[p].signReq = db[p].signReq
                /\ db'[p].nonces = db[p].nonces
                /\ db'[p].shares = db[p].shares
       /\ db' # db => SignStep \/ DeliverStep \/ SendStep]_vars

\* An honest peer that held both requests contributed a nonce and a share,
\* and still holds both requests and its stored nonces.
C40_Witness ==
    \E p \in Honest :
        /\ p \in proposed
        /\ db[p].nonceReq # None
        /\ db[p].signReq # None
        /\ \E i, j \in DOMAIN queue :
             /\ queue[i].origin = p /\ queue[i].item.kind = "Nonce"
             /\ queue[j].origin = p /\ queue[j].item.kind = "FrostSigShare"

====
